---- MODULE Spec2Model ----
(***************************************************************************)
(* A model of package-lambda.py: one packaging run (package(), lines       *)
(* 200-207) over a small file system and a small version-control state.    *)
(*                                                                         *)
(* Strings are sequences of one-character strings, so that the slicing,    *)
(* prefix and suffix tests of the code are computed, not assumed.          *)
(***************************************************************************)
EXTENDS Integers, Sequences, FiniteSets

\* ------------------------------------------------------------------ bounds
\* longest --libraries list tried
MaxLibs == 2
\* most regular files present in the file system at the start of a run
MaxFiles == 2
\* most lines "git status -s" prints
MaxChanges == 1

\* ---------------------------------------------------------- string helpers
\* s[i:] of Python (i is 0-based)
SliceFrom(s, i) == SubSeq(s, i + 1, Len(s))

\* s[:-1] of Python
DropLast(s) == SubSeq(s, 1, Len(s) - 1)

\* s.startswith(p)
StartsWith(s, p) == Len(p) <= Len(s) /\ SubSeq(s, 1, Len(p)) = p

\* s.endswith(x)
EndsWith(s, x) == Len(x) <= Len(s) /\ SubSeq(s, Len(s) - Len(x) + 1, Len(s)) = x

\* s.find(p) != -1
Contains(s, p) == \E i \in 1..(Len(s) - Len(p) + 1) : SubSeq(s, i, i + Len(p) - 1) = p

\* the index of the first occurrence of character c in s, 0 when there is none
FirstIndex(s, c) ==
  IF \E i \in 1..Len(s) : s[i] = c
  THEN CHOOSE i \in 1..Len(s) : s[i] = c /\ \A j \in 1..(i - 1) : s[j] # c
  ELSE 0

\* the index of the last occurrence of character c in s, 0 when there is none
LastIndex(s, c) ==
  IF \E i \in 1..Len(s) : s[i] = c
  THEN CHOOSE i \in 1..Len(s) : s[i] = c /\ \A j \in (i + 1)..Len(s) : s[j] # c
  ELSE 0

\* s.split(c) for a one-character separator: always at least one field
RECURSIVE Split(_, _)
Split(s, c) ==
  LET i == FirstIndex(s, c)
  IN  IF i = 0 THEN <<s>>
      ELSE <<SubSeq(s, 1, i - 1)>> \o Split(SubSeq(s, i + 1, Len(s)), c)

\* row.split()[0]: the first whitespace-delimited field of a row that has one
FirstField(row) ==
  LET i == FirstIndex(row, " ")
  IN  IF i = 0 THEN row ELSE SubSeq(row, 1, i - 1)

\* all orders in which a set can be listed: list(a_set) has no guaranteed order
Orderings(S) ==
  {q \in [1..Cardinality(S) -> S] : \A e \in S : \E i \in 1..Cardinality(S) : q[i] = e}

\* ------------------------------------------------------------- os.path
\* the process's working directory
Cwd == <<"/">>

\* os.path.join(a, b) for a relative b
Join(a, b) == IF a = <<>> \/ a[Len(a)] = "/" THEN a \o b ELSE a \o <<"/">> \o b

\* trailing separators removed, the root itself kept
RECURSIVE StripTrailing(_)
StripTrailing(p) ==
  IF Len(p) > 1 /\ p[Len(p)] = "/" THEN StripTrailing(DropLast(p)) ELSE p

\* os.path.abspath(p), for paths without "." , ".." or doubled separators
Abspath(p) ==
  StripTrailing(IF p # <<>> /\ p[1] = "/" THEN p ELSE Join(Cwd, p))

\* os.path.basename(p): what follows the last separator
Basename(p) == SliceFrom(p, LastIndex(p, "/"))

\* ---------------------------------------------------------- file system
\* File = namedtuple("File", ["absolutePath", "relativePath"])
File(a, r) == [absolutePath |-> a, relativePath |-> r]

SrcDir == <<"/", "s">>
LibDir == <<"/", "l">>
NoDir == <<"/", "n">>
RootDir == <<"/">>

\* the directories that exist (each may be empty); NoDir never exists
Directories == {RootDir, SrcDir, LibDir}

\* the regular files a run may find
FileUniverse ==
  { <<"/", "s", "/", "a", ".", "p", "y">>,
    <<"/", "s", "/", "a", ".", "p", "y", "c">>,
    <<"/", "s", "/", "l", "i", "b", "f", "o", "o", "/", "x">>,
    <<"/", "l", "/", "a", ".", "p", "y">>,
    <<"/", "l", "/", "a", ".", "p", "y", "c">> }

\* the ways the directories are spelled on the command line
SourceSpellings == { SrcDir, SrcDir \o <<"/">>, <<"s">>, RootDir, NoDir }
LibrarySpellings == { LibDir, SrcDir, NoDir }

\* the --exclude rule strings tried
Rules == { <<"l", "i", "b">>, <<"s">> }

PycSuffix == <<".", "p", "y", "c">>


\* the directory prefix every path below directory d starts with
DirPrefix(d) == Join(d, <<>>)

\* the path of file f relative to the directory that path names
RelativeTo(path, f) == SliceFrom(f, Len(DirPrefix(Abspath(path))))

\* os.walk(path) with os.path.join(root, candidate_file): the absolute_path of
\* every regular file below path; nothing when path is no directory
WalkPaths(path, tr) ==
  IF Abspath(path) \notin Directories THEN {}
  ELSE { Join(path, RelativeTo(path, f)) :
           f \in {g \in tr : StartsWith(g, DirPrefix(Abspath(path)))} }

\* ------------------------------------------------------------- Packager
\* an optional list argument: given = FALSE is None, rules = {} is []
NoExclude == [given |-> FALSE, rules |-> {}]

\* Packager.shouldExclude
ShouldExclude(file, exclude) ==
  IF ~exclude.given \/ exclude.rules = {} THEN FALSE
  ELSE \E pattern \in exclude.rules : StartsWith(file.relativePath, pattern)

\* Packager.getFileList
GetFileList(path, exclude, tr) ==
  LET l == Len(path)
      candidates == { File(absolute_path, SliceFrom(absolute_path, l + 1)) :
                        absolute_path \in WalkPaths(path, tr) }
  IN  { file \in candidates : ~ShouldExclude(file, exclude) }

\* Packager.deduplicateFileList
DeduplicateFileList(file_list) ==
  LET duplicated_files ==
        { file \in file_list :
            /\ EndsWith(file.relativePath, PycSuffix)
            /\ File(DropLast(file.absolutePath), DropLast(file.relativePath))
                 \in file_list }
  IN  file_list \ duplicated_files

\* Packager.getDeduplicatedFileList: the possible lists, one per order of the set
GetDeduplicatedFileList(path, exclude, tr) ==
  Orderings(DeduplicateFileList(GetFileList(path, exclude, tr)))

\* ------------------------------------------------------------------ Git
HEAD == <<"H", "E", "A", "D">>

\* Git.executeInDirectory: os.chdir(directory) raises OSError unless it is a directory
ChdirOk(directory) == Abspath(directory) \in Directories

\* Git.getUncommitedChanges, given the stdout of "git status -s"
GetUncommitedChanges(stdout) == Split(stdout, "\n")

\* Git.getChecksum, given the stdout of "git show-ref": hash stays unbound when
\* no row contains HEAD
GetChecksum(stdout) ==
  LET rows == Split(stdout, "\n")
      hits == {i \in 1..Len(rows) : Contains(rows[i], HEAD)}
  IN  IF hits = {} THEN [bound |-> FALSE, hash |-> <<>>]
      ELSE [bound |-> TRUE,
            hash |-> FirstField(rows[CHOOSE i \in hits : \A j \in hits : i <= j])]

\* the stdout of "git status -s" with n changed files, one line each
StatusOutput(n) == [i \in 1..(2 * n) |-> IF i % 2 = 1 THEN "M" ELSE "\n"]

\* version-control states of the source directory: the revision checked out
\* and the stdout of "git show-ref"
GitScenarios ==
  { \* a repository with one local branch and no remote
    [head |-> <<"1">>,
     showref |-> <<"1", " ", "h", "/", "m", "\n">>],
    \* a clone whose branch is at the remote's HEAD
    [head |-> <<"1">>,
     showref |-> <<"1", " ", "h", "/", "m", "\n",
                   "1", " ", "r", "/", "H", "E", "A", "D", "\n">>],
    \* a clone whose checkout is ahead of the remote's HEAD
    [head |-> <<"2">>,
     showref |-> <<"2", " ", "h", "/", "m", "\n",
                   "1", " ", "r", "/", "H", "E", "A", "D", "\n">>] }


\* ------------------------------------------------------------ the run
VARIABLES
  args,            \* the parsed command line: strict, sources, libraries, exclude
  tree,            \* the regular files that exist now
  git,             \* the version-control state zip_filename found
  status,          \* the stdout of "git status -s" enforce_strict read
  state,           \* where package() is
  changes,         \* enforce_strict's changes
  discovered,      \* what getFileList returned, per root: primary, then libraries
  files,           \* what files_to_package returned
  output_filename, \* what zip_filename returned
  archive,         \* the zip file at the destination
  exitCode,        \* the process's exit status, "none" while it runs
  raised           \* the exception that ended the run, "none" if none did

vars == <<args, tree, git, status, state, changes, discovered, files,
          output_filename, archive, exitCode, raised>>

\* no zip file at the destination
NoArchive == [exists |-> FALSE, name |-> <<>>, entries |-> <<>>]

\* the --libraries values tried: absent (None), or a list of at most MaxLibs directories
LibraryArgs ==
  {[given |-> FALSE, dirs |-> <<>>]} \cup
  {[given |-> TRUE, dirs |-> d] :
     d \in UNION {[1..n -> LibrarySpellings] : n \in 0..MaxLibs}}

\* the --exclude values tried: absent (None), empty, or one rule
ExcludeArgs ==
  {NoExclude} \cup {[given |-> TRUE, rules |-> r] : r \in {{}} \cup {{x} : x \in Rules}}

\* before "git show-ref" has run
Unqueried == [head |-> <<>>, showref |-> <<>>]

Init ==
  /\ args \in [strict : BOOLEAN, sources : SourceSpellings,
               libraries : LibraryArgs, exclude : ExcludeArgs]
  /\ tree \in {t \in SUBSET FileUniverse : Cardinality(t) <= MaxFiles}
  /\ git = Unqueried
  /\ status = <<>>
  /\ state = "Start"
  /\ changes = <<>>
  /\ discovered = <<>>
  /\ files = <<>>
  /\ output_filename = <<>>
  /\ archive = NoArchive
  /\ exitCode = "none"
  /\ raised = "none"

\* the exit status the interpreter gives a run ended by an uncaught exception
\* (main() is called with no handler around it)
UncaughtExit == "1"

\* the run ends: sys.exit(code), or an exception that nothing catches
Abort(exception, code) ==
  /\ state' = "Aborted"
  /\ raised' = exception
  /\ exitCode' = code

\* package, line 202: strict mode decides whether enforce_strict runs
Start ==
  /\ state = "Start"
  /\ state' = IF args.strict THEN "PreconditionCheck" ELSE "Discovering"
  /\ UNCHANGED <<args, tree, git, status, changes, discovered, files,
                 output_filename, archive, exitCode, raised>>

\* the exit code of a strict-mode refusal
StrictExit == "2"

\* when enforce_strict refuses
\* a refusal that tolerates one line of status output
RefusesAboveOneLine(change_list) == Len(change_list) > 2
Refuses(change_list) == Len(change_list) > 0

\* enforce_strict(sources)
enforce_strict ==
  /\ state = "PreconditionCheck"
  /\ IF ~ChdirOk(args.sources)
     THEN /\ Abort("OSError", UncaughtExit)
          /\ UNCHANGED changes
          /\ UNCHANGED status
     ELSE /\ \E n \in 0..MaxChanges : status' = StatusOutput(n)
          /\ changes' = GetUncommitedChanges(status')
          /\ IF Refuses(changes')
             THEN Abort("SystemExit", StrictExit)
             ELSE state' = "Discovering" /\ UNCHANGED <<exitCode, raised>>
  /\ UNCHANGED <<args, tree, git, discovered, files, output_filename, archive>>

\* the loop over the library directories, prepending where the code appends
RECURSIVE LibraryFilesPrepended(_, _, _)
LibraryFilesPrepended(library_directories, exclude, tr) ==
  IF library_directories = <<>> THEN {<<>>}
  ELSE { rest \o first :
           first \in GetDeduplicatedFileList(Head(library_directories), exclude, tr),
           rest \in LibraryFilesPrepended(Tail(library_directories), exclude, tr) }

\* the lists the loop over the library directories can build
RECURSIVE LibraryFiles(_, _, _)
LibraryFiles(library_directories, exclude, tr) ==
  IF library_directories = <<>> THEN {<<>>}
  ELSE { first \o rest :
           first \in GetDeduplicatedFileList(Head(library_directories), exclude, tr),
           rest \in LibraryFiles(Tail(library_directories), exclude, tr) }

\* a missing source directory reported with the strict-mode code
MissingExitAsStrict == "2"

\* the exit code for a missing source directory
MissingExit == "1"

\* the library directories files_to_package walks
LibraryDirectories(libraries) ==
  IF libraries.given THEN [i \in 1..Len(libraries.dirs) |-> Abspath(libraries.dirs[i])]
  ELSE <<>>

\* files_to_package(sources, libraries, exclude): discovery, deduplication per
\* root and concatenation (the Discovering and Resolving stages)
files_to_package ==
  /\ state = "Discovering"
  /\ LET source_directory == Abspath(args.sources)
         library_directories == LibraryDirectories(args.libraries)
     IN  IF source_directory \notin Directories
         THEN /\ Abort("SystemExit", MissingExit)
              /\ UNCHANGED <<discovered, files>>
         ELSE /\ \E source_files \in
                      GetDeduplicatedFileList(source_directory, args.exclude, tree),
                    library_files \in
                      LibraryFiles(library_directories, args.exclude, tree) :
                    files' = source_files \o library_files
              /\ discovered' =
                   <<GetFileList(source_directory, args.exclude, tree)>> \o
                   [i \in 1..Len(library_directories) |->
                      GetFileList(library_directories[i], args.exclude, tree)]
              /\ state' = "Naming"
              /\ UNCHANGED <<exitCode, raised>>
  /\ UNCHANGED <<args, tree, git, status, changes, output_filename, archive>>

\* "%s-%s.zip" % (base, checksum)
ZipName(base, checksum) == base \o <<"-">> \o checksum \o <<".", "z", "i", "p">>

\* zip_filename(sources)
zip_filename ==
  /\ state = "Naming"
  /\ IF ~ChdirOk(args.sources)
     THEN Abort("OSError", UncaughtExit) /\ UNCHANGED <<git, output_filename>>
     ELSE /\ git' \in GitScenarios
          /\ LET git_checksum == GetChecksum(git'.showref)
             IN  IF ~git_checksum.bound
                 THEN /\ Abort("UnboundLocalError", UncaughtExit)
                      /\ UNCHANGED output_filename
                 ELSE /\ output_filename' =
                           ZipName(Basename(args.sources), git_checksum.hash)
                      /\ state' = "Writing"
                      /\ UNCHANGED <<exitCode, raised>>
  /\ UNCHANGED <<args, tree, status, changes, discovered, files, archive>>

\* createZip, line 99: zipfile.ZipFile(filename, 'w') creates the file, empty
createZip_open ==
  /\ state = "Writing"
  /\ ~archive.exists
  /\ archive' = [exists |-> TRUE, name |-> output_filename, entries |-> <<>>]
  /\ UNCHANGED <<args, tree, git, status, state, changes, discovered, files,
                 output_filename, exitCode, raised>>

\* createZip, lines 100-101: zipf.write of the next member; a member that is
\* gone raises, and nothing removes the file already created
createZip_write ==
  /\ state = "Writing"
  /\ archive.exists
  /\ Len(archive.entries) < Len(files)
  /\ LET member == files[Len(archive.entries) + 1]
     IN  IF member.absolutePath \in tree
         THEN /\ archive' = [archive EXCEPT !.entries = Append(@, member)]
              /\ UNCHANGED <<state, exitCode, raised>>
         ELSE /\ Abort("OSError", UncaughtExit)
              /\ UNCHANGED archive
  /\ UNCHANGED <<args, tree, git, status, changes, discovered, files, output_filename>>

\* package, line 207: every member is written, the run reports the archive
package_done ==
  /\ state = "Writing"
  /\ archive.exists
  /\ Len(archive.entries) = Len(files)
  /\ state' = "Done"
  /\ exitCode' = "0"
  /\ UNCHANGED <<args, tree, git, status, changes, discovered, files,
                 output_filename, archive, raised>>

\* the environment: the member createZip is about to write is removed (a file
\* may vanish between discovery and the write that reads it)
RemoveFile ==
  /\ state = "Writing"
  /\ archive.exists
  /\ Len(archive.entries) < Len(files)
  /\ files[Len(archive.entries) + 1].absolutePath \in tree
  /\ tree' = tree \ {files[Len(archive.entries) + 1].absolutePath}
  /\ UNCHANGED <<args, git, status, state, changes, discovered, files,
                 output_filename, archive, exitCode, raised>>

Next ==
  \/ Start
  \/ enforce_strict
  \/ files_to_package
  \/ zip_filename
  \/ createZip_open
  \/ createZip_write
  \/ package_done
  \/ RemoveFile

Spec == Init /\ [][Next]_vars


\* ------------------------------------------------------------ properties
Terminal == state \in {"Done", "Aborted"}

SourceExists == Abspath(args.sources) \in Directories

\* the roots files_to_package walks, in order: the primary, then the libraries
Roots == <<Abspath(args.sources)>> \o LibraryDirectories(args.libraries)

\* the primary directory is not the file system root (under which getFileList
\* computes relative paths that are not root-relative)
PrimaryBelowRoot == Abspath(args.sources) # RootDir

\* C1: deduplicateFileList removes an entry of a discovered set exactly when its
\* relativePath ends in .pyc and the set holds an entry whose relativePath is
\* that path without the final c; the result holds nothing else
C1_DedupRemovesExactlyPairedPyc ==
  \A k \in 1..Len(discovered) :
    LET S == discovered[k]
        R == DeduplicateFileList(S)
    IN  /\ R \subseteq S
        /\ \A e \in S :
             (e \notin R) <=>
               /\ EndsWith(e.relativePath, PycSuffix)
               /\ \E sibling \in S : sibling.relativePath = DropLast(e.relativePath)

\* C2: right after discovery, getFileList has returned, for every root, exactly
\* the regular files below the root whose root-relative path starts with no
\* exclusion rule, each under its root-relative path
C2_DiscoveryIsPrefixFilter ==
  state = "Naming" =>
    \A k \in 1..Len(discovered) :
      discovered[k] =
        { File(f, RelativeTo(Roots[k], f)) :
            f \in { g \in tree :
                      /\ Roots[k] \in Directories
                      /\ StartsWith(g, DirPrefix(Roots[k]))
                      /\ ~\E rule \in args.exclude.rules :
                            StartsWith(RelativeTo(Roots[k], g), rule) } }

\* C3: a strict run that read an empty status output has an empty list of
\* changes and is not refused
C3_CleanTreePassesStrict ==
  (/\ args.strict
   /\ ChdirOk(args.sources)
   /\ state \notin {"Start", "PreconditionCheck"}
   /\ status = <<>>)
    => (changes = <<>> /\ ~(state = "Aborted" /\ exitCode = StrictExit))

\* C4: a strict run whose status output holds at least one change is aborted
\* with exit code 2, and nothing was discovered, no revision was queried and no
\* archive exists
C4_StrictDirtyAbortsBeforeDiscovery ==
  (args.strict /\ status # <<>>) =>
    /\ state = "Aborted"
    /\ exitCode = "2"
    /\ discovered = <<>>
    /\ files = <<>>
    /\ git = Unqueried
    /\ output_filename = <<>>
    /\ ~archive.exists

C4_Witness ==
  /\ args.strict
  /\ status = StatusOutput(1)
  /\ state = "Aborted"

\* C5: the member list holds no two entries with the same relativePath, and
\* neither does the archive (stated for a primary directory below the root)
C5_NoTwoMembersShareRelativePath ==
  PrimaryBelowRoot =>
  /\ \A i, j \in 1..Len(files) :
       i # j => files[i].relativePath # files[j].relativePath
  /\ \A i, j \in 1..Len(archive.entries) :
       i # j => archive.entries[i].relativePath # archive.entries[j].relativePath

\* C6: with a missing primary source directory the run never gets past
\* discovery, creates no archive, and ends aborted with exit code 1
C6_MissingSourceExitsOne ==
  ~SourceExists =>
    /\ state \in {"Start", "PreconditionCheck", "Discovering", "Aborted"}
    /\ ~archive.exists
    /\ Terminal => (state = "Aborted" /\ exitCode = "1")

C6_Witness ==
  /\ ~SourceExists
  /\ args.strict
  /\ args.libraries.given
  /\ state = "Aborted"

\* C7: a run given a library directory that does not exist does not complete
\* and leaves no archive (stated for a primary directory below the root)
C7_MissingLibraryAborts ==
  (PrimaryBelowRoot /\ \E i \in 1..Len(LibraryDirectories(args.libraries)) :
     LibraryDirectories(args.libraries)[i] \notin Directories)
    => (state # "Done" /\ ~archive.exists)

\* C8: a finished run either is Done with every member in the archive, or is
\* Aborted with no archive at the destination (stated for a primary directory
\* below the root)
C8_AllOrNothing ==
  (PrimaryBelowRoot /\ Terminal) =>
    \/ /\ state = "Done"
       /\ archive.exists
       /\ archive.entries = files
    \/ /\ state = "Aborted"
       /\ ~archive.exists

\* the number of entries the first k roots contribute
RECURSIVE Offset(_)
Offset(k) ==
  IF k = 0 THEN 0
  ELSE Offset(k - 1) +
       Cardinality(DeduplicateFileList(GetFileList(Roots[k], args.exclude, tree)))

\* C9: right after files_to_package, the member list is the deduplicated
\* discovery of the primary root followed by that of each library in the order
\* given, each root deduplicated on its own: root k's entries fill one block,
\* after the blocks of the roots before it
C9_MembersAreRootsInOrder ==
  state = "Naming" =>
    /\ Len(files) = Offset(Len(Roots))
    /\ \A k \in 1..Len(Roots) :
         {files[i] : i \in (Offset(k - 1) + 1)..Offset(k)} =
           DeduplicateFileList(GetFileList(Roots[k], args.exclude, tree))

\* two different libraries after the primary root; a.pyc is found only in the
\* first library and its a.py only in the other roots: all three are members,
\* the first library's between the primary's and the second library's
C9_Witness ==
  /\ state = "Naming"
  /\ args.sources = SrcDir
  /\ args.libraries.dirs = <<LibDir, SrcDir>>
  /\ Len(files) = 3
  /\ files[1] = File(SrcDir \o <<"/", "a", ".", "p", "y">>, <<"a", ".", "p", "y">>)
  /\ files[2] = File(LibDir \o <<"/", "a", ".", "p", "y", "c">>,
                     <<"a", ".", "p", "y", "c">>)
  /\ files[3] = files[1]

\* C10: the archive of a successful run is named <base>-<rev>.zip, base the
\* name of the primary source directory and rev the revision checked out
\* (stated for a primary directory below the root)
C10_NamedByDirectoryAndRevision ==
  (PrimaryBelowRoot /\ state = "Done") =>
    archive.name = ZipName(Basename(Abspath(args.sources)), git.head)

====
